---- MODULE Spec2Model ----
(***************************************************************************)
(* Shape-level model of the two model definitions of the repository:       *)
(*   - e3d_lstm/src/layers/rnn_cellp.py : EideticLSTMCell (constructor,    *)
(*     _attn, _conv, __call__) and its 2D/3D subclasses;                   *)
(*   - ECO/paddle2.0/model/ECO.py : the Inception blocks and GoogLeNet.    *)
(* Tensors are represented by their shapes (sequences of positive          *)
(* integers); the framework operations (reshape, matmul, concat, conv,     *)
(* pooling) are modelled by their effect on shapes and by the conditions   *)
(* under which they fail.                                                  *)
(***************************************************************************)
EXTENDS Integers, Sequences, FiniteSets, TLC

VARIABLES
    \* ---- EideticLSTMCell._attn ----
    q_shape, k_shape, v_shape, attn_out,
    \* ---- EideticLSTMCell construction and __call__ ----
    cell, cpc, locals, norm_calls, call_out,
    \* ---- GoogLeNet ----
    net, out_3d, npc, inputs, tens, chan_trace, fwd_out, calls

attnVars == <<q_shape, k_shape, v_shape, attn_out>>
cellVars == <<cell, cpc, locals, norm_calls, call_out>>
netVars  == <<net, out_3d, npc, inputs, tens, chan_trace, fwd_out, calls>>
vars     == <<attnVars, cellVars, netVars>>

(***************************************************************************)
(* Bounds of the model.                                                    *)
(***************************************************************************)
\* batch and sequence-length dimensions of the _attn inputs range over 1..MaxDim
MaxDim == 2
\* ranks of malformed inputs range over 0..MaxRank
MaxRank == 6
\* output_channels of a cell ranges over 1..MaxChannels
MaxChannels == 2
\* conv_ndims passed to the constructor ranges over 0..MaxNdims
MaxNdims == 4
\* batch size B of a GoogLeNet input ranges over 1..MaxBatch
MaxBatch == 2
\* number of consecutive forward calls on one GoogLeNet object
MaxCalls == 3

\* spatial and channel dimensions (w, h, n) of the _attn inputs
SpatialDims == {1, 2}

(***************************************************************************)
(* Shapes and framework operations on shapes.                              *)
(***************************************************************************)
Ones(r) == [i \in 1..r |-> 1]

RECURSIVE Prod(_)
Prod(s) == IF s = <<>> THEN 1 ELSE Head(s) * Prod(Tail(s))

\* Python's s[i], 0-based: defined when i < len(s)
Has(s, i) == i < Len(s)
At(s, i) == s[i + 1]

Ok(shape) == [ok |-> TRUE, shape |-> shape]
Fail == [ok |-> FALSE, shape |-> <<>>]

\* reshape(x, target): at most one entry of target is -1 and is inferred from
\* the element count; the element count must be preserved.
Reshape(shape, target) ==
    LET unknown == {i \in 1..Len(target) : target[i] = -1}
        known == Prod([i \in 1..Len(target) |->
                          IF target[i] = -1 THEN 1 ELSE target[i]])
        total == Prod(shape)
    IN  IF Cardinality(unknown) > 1 \/ known <= 0 THEN Fail
        ELSE IF unknown = {}
             THEN IF known = total THEN Ok(target) ELSE Fail
        ELSE IF total % known # 0 THEN Fail
        ELSE Ok([i \in 1..Len(target) |->
                    IF target[i] = -1 THEN total \div known ELSE target[i]])

\* matmul(x, y, transpose_x, transpose_y) on rank-3 operands (batched)
Matmul(x, y, tx, ty) ==
    LET xr == IF tx THEN x[3] ELSE x[2]
        xc == IF tx THEN x[2] ELSE x[3]
        yr == IF ty THEN y[3] ELSE y[2]
        yc == IF ty THEN y[2] ELSE y[3]
    IN  IF Len(x) # 3 \/ Len(y) # 3 THEN Fail
        ELSE IF x[1] # y[1] \/ xc # yr THEN Fail
        ELSE Ok(<<x[1], xr, yc>>)

\* Outcome of a call: kind is "return", the class of an exception this
\* repository raises or lets escape ("ValueError", "IndexError", ...), or
\* "FrameworkError" for an exception raised inside a framework operation
\* (its Python class is the framework's choice); line is the source line
\* that ended the call.
Outcome(kind, shape, line) == [kind |-> kind, shape |-> shape, line |-> line]
Pending == Outcome("pending", <<>>, 0)

(***************************************************************************)
(* EideticLSTMCell._attn  (rnn_cellp.py 89-148)                            *)
(***************************************************************************)
\* line 106-117: the query's rank check
QueryRankOk(q) == Len(q) = 4 \/ Len(q) = 5

\* the keys' rank check as the docstring words it ("4 or 5")
KeysRankOkLoose(k) == Len(k) = 4 \/ Len(k) = 5
\* line 120: the keys' rank check
KeysRankOk(k) == Len(k) = 5

\* line 124: the values' rank check
ValuesRankOk(v) == Len(v) = 5

\* lines 127, 130, 133: `a != s[2] or b != s[3] or c != s[4]`, evaluated left
\* to right with short-circuit; "IndexError" when an index is out of range
Cmp3(a, b, c, s) ==
    IF ~Has(s, 2) THEN "IndexError"
    ELSE IF a # At(s, 2) THEN "differ"
    ELSE IF ~Has(s, 3) THEN "IndexError"
    ELSE IF b # At(s, 3) THEN "differ"
    ELSE IF ~Has(s, 4) THEN "IndexError"
    ELSE IF c # At(s, 4) THEN "differ"
    ELSE "same"

\* the final reshape with width and height exchanged
FinalTargetSwapped(q, batch, width, height, num_channels) ==
    IF Len(q) = 4 THEN <<batch, height, width, num_channels>>
    ELSE <<batch, -1, height, width, num_channels>>
\* lines 144-147: the target of the final reshape
FinalTarget(q, batch, width, height, num_channels) ==
    IF Len(q) = 4 THEN <<batch, width, height, num_channels>>
    ELSE <<batch, -1, width, height, num_channels>>

\* lines 138-148: the attention computation on validated inputs; the first
\* framework operation that fails decides the line of the failure
AttnCompute(q, k, v, batch, width, height, num_channels) ==
    LET query == Reshape(q, <<batch, -1, num_channels>>)
        keys == Reshape(k, <<batch, -1, num_channels>>)
        values == Reshape(v, <<batch, -1, num_channels>>)
        attn1 == Matmul(query.shape, keys.shape, FALSE, TRUE)
        attn2 == Matmul(attn1.shape, values.shape, FALSE, FALSE)
        attn3 == Reshape(attn2.shape,
                         FinalTarget(q, batch, width, height, num_channels))
    IN  IF ~query.ok THEN Outcome("FrameworkError", <<>>, 138)
        ELSE IF ~keys.ok THEN Outcome("FrameworkError", <<>>, 139)
        ELSE IF ~values.ok THEN Outcome("FrameworkError", <<>>, 140)
        ELSE IF ~attn1.ok THEN Outcome("FrameworkError", <<>>, 141)
        ELSE IF ~attn2.ok THEN Outcome("FrameworkError", <<>>, 143)
        ELSE IF ~attn3.ok
             THEN Outcome("FrameworkError", <<>>, IF Len(q) = 4 THEN 145 ELSE 147)
        ELSE Outcome("return", attn3.shape, 148)

\* lines 105-148
Attn(q, k, v) ==
    IF ~QueryRankOk(q) THEN Outcome("ValueError", <<>>, 117)
    ELSE
    LET batch == At(q, 0)
        width == IF Len(q) = 4 THEN At(q, 1) ELSE At(q, 2)
        height == IF Len(q) = 4 THEN At(q, 2) ELSE At(q, 3)
        num_channels == IF Len(q) = 4 THEN At(q, 3) ELSE At(q, 4)
        qk == Cmp3(width, height, num_channels, k)
        qv == Cmp3(width, height, num_channels, v)
        kv == IF ~Has(k, 2) \/ ~Has(v, 2) THEN "IndexError"
              ELSE IF At(k, 2) # At(v, 2) THEN "differ"
              ELSE IF ~Has(k, 3) \/ ~Has(v, 3) THEN "IndexError"
              ELSE IF At(k, 3) # At(v, 3) THEN "differ"
              ELSE IF ~Has(k, 4) \/ ~Has(v, 4) THEN "IndexError"
              ELSE IF At(k, 4) # At(v, 4) THEN "differ"
              ELSE "same"
    IN  IF ~KeysRankOk(k) THEN Outcome("ValueError", <<>>, 121)
        ELSE IF ~ValuesRankOk(v) THEN Outcome("ValueError", <<>>, 125)
        ELSE IF qk = "IndexError" THEN Outcome("IndexError", <<>>, 127)
        ELSE IF qk = "differ" THEN Outcome("ValueError", <<>>, 128)
        ELSE IF qv = "IndexError" THEN Outcome("IndexError", <<>>, 130)
        ELSE IF qv = "differ" THEN Outcome("ValueError", <<>>, 131)
        ELSE IF kv = "IndexError" THEN Outcome("IndexError", <<>>, 133)
        ELSE IF kv = "differ" THEN Outcome("ValueError", <<>>, 135)
        ELSE AttnCompute(q, k, v, batch, width, height, num_channels)

\* input shapes: every rank-5 shape (b, l, w, h, n), every rank-4 shape
\* (b, w, h, n), and one shape of every rank 0..MaxRank
Rank5Shapes ==
    {<<b, l, w, h, n>> : b \in 1..MaxDim, l \in 1..MaxDim, w \in SpatialDims,
                         h \in SpatialDims, n \in SpatialDims}
Rank4Shapes ==
    {<<b, w, h, n>> : b \in 1..MaxDim, w \in SpatialDims,
                      h \in SpatialDims, n \in SpatialDims}
OddShapes == {Ones(r) : r \in 0..MaxRank}
AttnShapes == Rank5Shapes \cup Rank4Shapes \cup OddShapes

AttnCall ==
    /\ attn_out = Pending
    /\ attn_out' = Attn(q_shape, k_shape, v_shape)
    /\ UNCHANGED <<q_shape, k_shape, v_shape, cellVars, netVars>>

(***************************************************************************)
(* EideticLSTMCell.__init__ and the subclasses  (rnn_cellp.py 32-74,       *)
(* 213-236)                                                                *)
(***************************************************************************)
AttrNames == {"_conv_ndims", "_input_shape", "_output_channels",
              "_kernel_shape", "_layer_norm", "_norm_gain", "_norm_shift",
              "_forget_bias", "_layer_name"}
\* an object no attribute of which has been assigned
NoAttrs ==
    [_conv_ndims |-> "absent", _input_shape |-> "absent",
     _output_channels |-> "absent", _kernel_shape |-> "absent",
     _layer_norm |-> "absent", _norm_gain |-> "absent",
     _norm_shift |-> "absent", _forget_bias |-> "absent",
     _layer_name |-> "absent"]

\* lines 66-74: the nine assignments
StoreAll(a) ==
    [_conv_ndims |-> a.conv_ndims, _input_shape |-> a.input_shape,
     _output_channels |-> a.output_channels, _kernel_shape |-> a.kernel_shape,
     _layer_norm |-> a.layer_norm, _norm_gain |-> a.norm_gain,
     _norm_shift |-> a.norm_shift, _forget_bias |-> a.forget_bias,
     _layer_name |-> a.name]

\* the constructor with conv_ndims compared to len(input_shape)
CtorOffByOne(a) ==
    IF a.conv_ndims # Len(a.input_shape)
    THEN [out |-> "ValueError", stored |-> {}, attrs |-> NoAttrs]
    ELSE [out |-> "ok", stored |-> AttrNames, attrs |-> StoreAll(a)]
\* lines 62-74: the check, then the stores
Ctor(a) ==
    IF a.conv_ndims # Len(a.input_shape) - 1
    THEN [out |-> "ValueError", stored |-> {}, attrs |-> NoAttrs]
    ELSE [out |-> "ok", stored |-> AttrNames, attrs |-> StoreAll(a)]

InputShapes == {Ones(r) : r \in 0..MaxRank}
KernelShapes == {<<5>>, <<5, 5>>, <<2, 5, 5>>}
CellNames == {"eidetic_lstm_cell", "cell_a"}

\* the keyword arguments other than conv_ndims and name
Kwargs ==
    [input_shape : InputShapes, output_channels : 1..MaxChannels,
     kernel_shape : KernelShapes, layer_norm : BOOLEAN, norm_gain : {1, 2},
     norm_shift : {0, 1}, forget_bias : {0, 1}]

WithNdimsName(kw, ndims, name) ==
    [conv_ndims |-> ndims, input_shape |-> kw.input_shape,
     output_channels |-> kw.output_channels, kernel_shape |-> kw.kernel_shape,
     layer_norm |-> kw.layer_norm, norm_gain |-> kw.norm_gain,
     norm_shift |-> kw.norm_shift, forget_bias |-> kw.forget_bias,
     name |-> name]

NoArgs ==
    [conv_ndims |-> 0, input_shape |-> <<>>, output_channels |-> 0,
     kernel_shape |-> <<>>, layer_norm |-> FALSE, norm_gain |-> 0,
     norm_shift |-> 0, forget_bias |-> 0, name |-> ""]
NoCell ==
    [cls |-> "none", out |-> "none", args |-> NoArgs, stored |-> {},
     attrs |-> NoAttrs]

Build(cls, a) ==
    /\ cell' = [cls |-> cls, out |-> Ctor(a).out, args |-> a,
                stored |-> Ctor(a).stored, attrs |-> Ctor(a).attrs]
    /\ UNCHANGED <<cpc, locals, norm_calls, call_out, attnVars, netVars>>

\* EideticLSTMCell(conv_ndims, input_shape, ..., name)
Construct ==
    /\ cell.out = "none"
    /\ \E kw \in Kwargs, ndims \in 0..MaxNdims, name \in CellNames :
        Build("EideticLSTMCell", WithNdimsName(kw, ndims, name))

\* Eidetic2DLSTMCell with keyword arguments: conv_ndims=2 (line 223)
Construct2D ==
    /\ cell.out = "none"
    /\ \E kw \in Kwargs :
        Build("Eidetic2DLSTMCell", WithNdimsName(kw, 2, "eidetic_2d_lstm_cell"))

\* Eidetic3DLSTMCell with keyword arguments: conv_ndims=3 (line 236)
Construct3D ==
    /\ cell.out = "none"
    /\ \E kw \in Kwargs :
        Build("Eidetic3DLSTMCell", WithNdimsName(kw, 3, "eidetic_3d_lstm_cell"))

(***************************************************************************)
(* EideticLSTMCell._conv and __call__  (rnn_cellp.py 150-210)              *)
(* A local variable holds "unset" (never assigned), "T" (a tensor) or      *)
(* "None".  cpc is the line of the next statement of the running call, 0   *)
(* when no call is running; call_out is the outcome of the last call.      *)
(***************************************************************************)
Params == {"inputs", "hidden", "cell", "global_memory", "eidetic_cell"}
Locals ==
    Params \cup
    {"new_hidden", "i_h", "g_h", "r_h", "o_h", "new_inputs", "i_x", "g_x",
     "r_x", "o_x", "temp_i_x", "temp_g_x", "temp_f_x", "i_t", "r_t", "g_t",
     "new_cell", "new_global_memory", "i_m", "f_m", "g_m", "m_m", "temp_i_t",
     "temp_f_t", "temp_g_t", "o_c", "o_m", "output_gate", "memory", "output"}
FreshLocals == [n \in Locals |-> IF n \in Params THEN "T" ELSE "unset"]

\* lines 150-156: conv2d for 2, conv3d for 3, and no return statement for
\* any other dimensionality
Conv(ndims) ==
    IF ndims = 2 THEN "T"
    ELSE IF ndims = 3 THEN "T"
    ELSE "None"

\* normalization applied whatever the option says
LayerNormAlways(c) == TRUE
\* lines 167, 174, 189: `if self._layer_norm:`
LayerNormOn(c) == c.attrs._layer_norm

Assign(names, value) ==
    [n \in Locals |-> IF n \in names THEN value ELSE locals[n]]

RaiseInCall(kind, line) ==
    /\ cpc' = 0
    /\ call_out' = Outcome(kind, <<>>, line)
    /\ UNCHANGED <<locals, norm_calls>>

\* one statement: reading a never-assigned local raises UnboundLocalError,
\* handing None to a framework layer or operator raises TypeError
Exec(line, next, reads, writes, value, scopes) ==
    /\ cpc = line
    /\ UNCHANGED <<cell, attnVars, netVars>>
    /\ IF \E n \in reads : locals[n] = "unset"
       THEN RaiseInCall("UnboundLocalError", line)
       ELSE IF \E n \in reads : locals[n] = "None"
       THEN RaiseInCall("TypeError", line)
       ELSE /\ locals' = Assign(writes, value)
            /\ norm_calls' = norm_calls \o scopes
            /\ cpc' = next
            /\ UNCHANGED call_out

\* `if self._layer_norm:` guarding the statement
ExecIfNorm(line, next, reads, writes, scopes) ==
    /\ cpc = line
    /\ IF LayerNormOn(cell)
       THEN Exec(line, next, reads, writes, "T", scopes)
       ELSE Exec(line, next, {}, {}, "T", <<>>)

CallBegin ==
    /\ cell.out = "ok"
    /\ cpc = 0
    /\ cpc' = 165
    /\ locals' = FreshLocals
    /\ norm_calls' = <<>>
    /\ call_out' = Pending
    /\ UNCHANGED <<cell, attnVars, netVars>>

ConvOf(c) == Conv(c.attrs._conv_ndims)

L165 == Exec(165, 167, {"hidden"}, {"new_hidden"}, ConvOf(cell), <<>>)
L167 == ExecIfNorm(167, 169, {"new_hidden"}, {"new_hidden"}, <<"hidden">>)
L169 == Exec(169, 172, {"new_hidden"}, {"i_h", "g_h", "r_h", "o_h"},
             "T", <<>>)
L172 == Exec(172, 174, {"inputs"}, {"new_inputs"}, ConvOf(cell), <<>>)
L174 == ExecIfNorm(174, 179, {"new_inputs"},
                   {"new_inputs", "i_x", "g_x", "r_x", "o_x", "temp_i_x",
                    "temp_g_x", "temp_f_x"}, <<"inputs">>)
L179 == Exec(179, 180, {"i_x", "i_h"}, {"i_t"}, "T", <<>>)
L180 == Exec(180, 181, {"r_x", "r_h"}, {"r_t"}, "T", <<>>)
L181 == Exec(181, 183, {"g_x", "g_h"}, {"g_t"}, "T", <<>>)
\* line 183: the operands handed to _attn are taken to be compatible (the
\* shapes inside __call__ are not tracked; _attn is modelled on its own above)
L183 == Exec(183, 184, {"cell", "r_t", "eidetic_cell"}, {"new_cell"},
             "T", <<>>)
L184 == Exec(184, 186, {"new_cell", "i_t", "g_t"}, {"new_cell"}, "T",
             <<"self_attn">>)
L186 == Exec(186, 189, {"global_memory"}, {"new_global_memory"},
             ConvOf(cell), <<>>)
L189 == ExecIfNorm(189, 194, {"new_global_memory"},
                   {"new_global_memory", "i_m", "f_m", "g_m", "m_m"},
                   <<"global_memory">>)
L194 == Exec(194, 195, {"temp_i_x", "i_m"}, {"temp_i_t"}, "T", <<>>)
L195 == Exec(195, 196, {"temp_f_x", "f_m"}, {"temp_f_t"}, "T", <<>>)
L196 == Exec(196, 197, {"temp_g_x", "g_m"}, {"temp_g_t"}, "T", <<>>)
L197 == Exec(197, 199, {"temp_f_t", "m_m", "temp_i_t", "temp_g_t"},
             {"new_global_memory"}, "T", <<>>)
L199 == Exec(199, 200, {"new_cell"}, {"o_c"}, ConvOf(cell), <<>>)
L200 == Exec(200, 203, {"new_global_memory"}, {"o_m"}, ConvOf(cell), <<>>)
L203 == Exec(203, 205, {"o_x", "o_h", "o_c", "o_m"}, {"output_gate"},
             "T", <<>>)
L205 == Exec(205, 206, {"new_cell", "new_global_memory"}, {"memory"},
             "T", <<>>)
L206 == Exec(206, 208, {"memory"}, {"memory"}, ConvOf(cell), <<>>)
L208 == Exec(208, 210, {"memory", "output_gate"}, {"output"}, "T", <<>>)

\* line 210: return output, new_cell, new_global_memory
L210 ==
    /\ cpc = 210
    /\ UNCHANGED <<cell, attnVars, netVars>>
    /\ IF \E n \in {"output", "new_cell", "new_global_memory"} :
              locals[n] = "unset"
       THEN RaiseInCall("UnboundLocalError", 210)
       ELSE /\ cpc' = 0
            /\ call_out' = Outcome("return", <<>>, 210)
            /\ UNCHANGED <<locals, norm_calls>>

CallStep ==
    \/ L165 \/ L167 \/ L169 \/ L172 \/ L174 \/ L179 \/ L180 \/ L181
    \/ L183 \/ L184 \/ L186 \/ L189 \/ L194 \/ L195 \/ L196 \/ L197
    \/ L199 \/ L200 \/ L203 \/ L205 \/ L206 \/ L208 \/ L210

(***************************************************************************)
(* Layers of ECO.py on shapes (N, C, H, W).                                *)
(***************************************************************************)
\* input image side: "input image should be 224 * 224"
ImageSize == 224
\* batch size of the example in GoogLeNet's docstring
DemoBatch == 8
\* in_features of the final Linear
InFeatures == 1536
\* channels produced by the 3D network (Res3D.ResNet3D)
Res3DOut == 512

\* output side of a convolution or pooling window: kernel k, stride s, padding p
WindowOut(h, k, s, p) == ((h + 2 * p - k) \div s) + 1

ConvBN(cin, cout, k, s, p) ==
    [op |-> "conv", cin |-> cin, cout |-> cout, k |-> k, s |-> s, p |-> p]
Pool(k, s, p) ==
    [op |-> "pool", cin |-> 0, cout |-> 0, k |-> k, s |-> s, p |-> p]
AdaptivePool1 ==
    [op |-> "adaptive", cin |-> 0, cout |-> 0, k |-> 0, s |-> 0, p |-> 0]

\* ConvBNLayer.forward (5-31): Conv2D rejects an input whose channel count is
\* not in_channels; MaxPool2D/AvgPool2D keep the channels; AdaptiveAvgPool2D
\* with output_size=1 gives (N, C, 1, 1)
Apply(layer, r) ==
    IF ~r.ok \/ Len(r.shape) # 4 THEN Fail
    ELSE LET x == r.shape
         IN  IF layer.op = "conv"
             THEN IF x[2] # layer.cin THEN Fail
                  ELSE Ok(<<x[1], layer.cout,
                            WindowOut(x[3], layer.k, layer.s, layer.p),
                            WindowOut(x[4], layer.k, layer.s, layer.p)>>)
             ELSE IF layer.op = "pool"
             THEN Ok(<<x[1], x[2],
                       WindowOut(x[3], layer.k, layer.s, layer.p),
                       WindowOut(x[4], layer.k, layer.s, layer.p)>>)
             ELSE Ok(<<x[1], x[2], 1, 1>>)

\* paddle.nn.Sequential
RECURSIVE Sequential(_, _)
Sequential(layers, r) ==
    IF layers = <<>> THEN r
    ELSE Sequential(Tail(layers), Apply(Head(layers), r))

RECURSIVE SumAxis(_, _)
SumAxis(rs, axis) ==
    IF rs = <<>> THEN 0 ELSE Head(rs).shape[axis] + SumAxis(Tail(rs), axis)

\* paddle.concat(rs, axis): the operands agree in rank and in every dimension
\* but `axis` (1-based here), which is summed
Concat(rs, axis) ==
    IF rs = <<>> \/ \E i \in 1..Len(rs) : ~rs[i].ok THEN Fail
    ELSE LET first == rs[1].shape
         IN  IF \E i \in 1..Len(rs) :
                    \/ Len(rs[i].shape) # Len(first)
                    \/ \E d \in 1..Len(first) :
                          d # axis /\ rs[i].shape[d] # first[d]
             THEN Fail
             ELSE Ok([d \in 1..Len(first) |->
                         IF d = axis THEN SumAxis(rs, axis) ELSE first[d]])

\* paddle.mean(x, axis=1) on a rank-3 tensor
MeanAxis1(r) ==
    IF ~r.ok \/ Len(r.shape) # 3 THEN Fail
    ELSE Ok(<<r.shape[1], r.shape[3]>>)

\* Linear(in_features, out_features)
Linear(fin, fout, r) ==
    IF ~r.ok \/ r.shape = <<>> THEN Fail
    ELSE IF r.shape[Len(r.shape)] # fin THEN Fail
    ELSE Ok([d \in 1..Len(r.shape) |->
                IF d = Len(r.shape) THEN fout ELSE r.shape[d]])

IncParams(n, c1, c3r, c3, d3r, d31, d32, pp) ==
    [num_channels |-> n, ch1x1 |-> c1, ch3x3reduced |-> c3r, ch3x3 |-> c3,
     doublech3x3reduced |-> d3r, doublech3x3_1 |-> d31, doublech3x3_2 |-> d32,
     pool_proj |-> pp]

\* an Inception block whose pooling branch is left out of the concat
InceptionNoPool(b, r) ==
    Concat(<<Sequential(<<ConvBN(b.num_channels, b.ch1x1, 1, 1, 0)>>, r),
             Sequential(<<ConvBN(b.num_channels, b.ch3x3reduced, 1, 1, 0),
                          ConvBN(b.ch3x3reduced, b.ch3x3, 3, 1, 1)>>, r),
             Sequential(<<ConvBN(b.num_channels, b.doublech3x3reduced, 1, 1, 0),
                          ConvBN(b.doublech3x3reduced, b.doublech3x3_1, 3, 1, 1),
                          ConvBN(b.doublech3x3_1, b.doublech3x3_2, 3, 1, 1)>>, r)>>,
           2)
\* Inception (34-121): four branches concatenated on the channel axis
Inception(b, r) ==
    Concat(<<Sequential(<<ConvBN(b.num_channels, b.ch1x1, 1, 1, 0)>>, r),
             Sequential(<<ConvBN(b.num_channels, b.ch3x3reduced, 1, 1, 0),
                          ConvBN(b.ch3x3reduced, b.ch3x3, 3, 1, 1)>>, r),
             Sequential(<<ConvBN(b.num_channels, b.doublech3x3reduced, 1, 1, 0),
                          ConvBN(b.doublech3x3reduced, b.doublech3x3_1, 3, 1, 1),
                          ConvBN(b.doublech3x3_1, b.doublech3x3_2, 3, 1, 1)>>, r),
             Sequential(<<Pool(3, 1, 1),
                          ConvBN(b.num_channels, b.pool_proj, 1, 1, 0)>>, r)>>,
           2)

\* Inception3c (123-196): returns (outputs, branch2)
Inception3cBranch2(b, r) ==
    Sequential(<<ConvBN(b.num_channels, b.doublech3x3reduced, 1, 1, 0),
                 ConvBN(b.doublech3x3reduced, b.doublech3x3_1, 3, 1, 1)>>, r)
Inception3c(b, r) ==
    Concat(<<Sequential(<<ConvBN(b.num_channels, b.ch3x3reduced, 1, 1, 0),
                          ConvBN(b.ch3x3reduced, b.ch3x3, 3, 2, 1)>>, r),
             Sequential(<<ConvBN(b.doublech3x3_1, b.doublech3x3_2, 3, 2, 1)>>,
                        Inception3cBranch2(b, r)),
             Sequential(<<Pool(3, 2, 1)>>, r)>>,
           2)

\* Inception4e (199-271)
Inception4e(b, r) ==
    Concat(<<Sequential(<<ConvBN(b.num_channels, b.ch3x3reduced, 1, 1, 0),
                          ConvBN(b.ch3x3reduced, b.ch3x3, 3, 2, 1)>>, r),
             Sequential(<<ConvBN(b.num_channels, b.doublech3x3reduced, 1, 1, 0),
                          ConvBN(b.doublech3x3reduced, b.doublech3x3_1, 3, 1, 1),
                          ConvBN(b.doublech3x3_1, b.doublech3x3_2, 3, 2, 1)>>, r),
             Sequential(<<Pool(3, 2, 1)>>, r)>>,
           2)

\* Inception5a (274-359) and Inception5b (361-446): as Inception, with an
\* average and a max pooling in branch4
Inception5a(b, r) ==
    Concat(<<Sequential(<<ConvBN(b.num_channels, b.ch1x1, 1, 1, 0)>>, r),
             Sequential(<<ConvBN(b.num_channels, b.ch3x3reduced, 1, 1, 0),
                          ConvBN(b.ch3x3reduced, b.ch3x3, 3, 1, 1)>>, r),
             Sequential(<<ConvBN(b.num_channels, b.doublech3x3reduced, 1, 1, 0),
                          ConvBN(b.doublech3x3reduced, b.doublech3x3_1, 3, 1, 1),
                          ConvBN(b.doublech3x3_1, b.doublech3x3_2, 3, 1, 1)>>, r),
             Sequential(<<Pool(3, 1, 1),
                          ConvBN(b.num_channels, b.pool_proj, 1, 1, 0)>>, r)>>,
           2)
Inception5b(b, r) ==
    Concat(<<Sequential(<<ConvBN(b.num_channels, b.ch1x1, 1, 1, 0)>>, r),
             Sequential(<<ConvBN(b.num_channels, b.ch3x3reduced, 1, 1, 0),
                          ConvBN(b.ch3x3reduced, b.ch3x3, 3, 1, 1)>>, r),
             Sequential(<<ConvBN(b.num_channels, b.doublech3x3reduced, 1, 1, 0),
                          ConvBN(b.doublech3x3reduced, b.doublech3x3_1, 3, 1, 1),
                          ConvBN(b.doublech3x3_1, b.doublech3x3_2, 3, 1, 1)>>, r),
             Sequential(<<Pool(3, 1, 1),
                          ConvBN(b.num_channels, b.pool_proj, 1, 1, 0)>>, r)>>,
           2)

(***************************************************************************)
(* GoogLeNet.__init__  (ECO.py 450-539)                                    *)
(***************************************************************************)
\* lines 477-486 and 488-502
Part1List(channels) == <<ConvBN(channels, 64, 7, 2, 3), Pool(3, 2, 1)>>
Part2List == <<ConvBN(64, 64, 1, 1, 0), ConvBN(64, 192, 3, 1, 1), Pool(3, 2, 1)>>

\* lines 510-527: the constructor arguments of the Inception blocks
Inc3a == IncParams(192, 64, 64, 64, 64, 96, 96, 32)
Inc3b == IncParams(256, 64, 64, 96, 64, 96, 96, 64)
Inc3c == IncParams(320, 0, 128, 160, 64, 96, 96, 0)
Inc4a == IncParams(576, 224, 64, 96, 96, 128, 128, 128)
Inc4b == IncParams(576, 192, 96, 128, 96, 128, 128, 128)
Inc4c == IncParams(576, 160, 128, 160, 128, 160, 160, 128)
Inc4d == IncParams(608, 96, 128, 192, 160, 192, 192, 128)
Inc4e == IncParams(608, 0, 128, 192, 192, 256, 256, 608)
Inc5a == IncParams(1056, 352, 192, 320, 160, 224, 224, 128)
Inc5b == IncParams(1024, 352, 192, 320, 192, 224, 224, 128)

\* line 531: ResNet3D('resnet', modality='RGB', channels=96) on
\* (N, 96, D, H, W); the class is defined in model/Res3D.py
Res3DChannels == 96
Res3D(r) ==
    IF ~r.ok \/ Len(r.shape) # 5 THEN Fail
    ELSE IF r.shape[2] # Res3DChannels THEN Fail
    ELSE Ok(<<r.shape[1], Res3DOut, 1, 1, 1>>)

ClassDims == {10, 101}
SegNums == {12, 24}

NoNet == [built |-> FALSE, class_dim |-> 0, seg_num |-> 0, channels |-> 0]

\* lines 470-473 and 539
NetConstruct ==
    /\ ~net.built
    /\ \E cd \in ClassDims, sn \in SegNums :
          net' = [built |-> TRUE, class_dim |-> cd, seg_num |-> sn,
                  channels |-> 3 * 1]
    /\ out_3d' = <<>>
    /\ UNCHANGED <<npc, inputs, tens, chan_trace, fwd_out, calls,
                   attnVars, cellVars>>

(***************************************************************************)
(* GoogLeNet.forward  (ECO.py 541-603), one action per statement that can  *)
(* fail or that changes the object.                                        *)
(***************************************************************************)
TensNames == {"x", "part1", "b3d", "before3d", "y3d", "o3d", "part2", "part3",
              "o2d", "final"}
NoTens == [n \in TensNames |-> <<>>]

TValues == {1, 12, 24}
\* inputs offered to forward: the docstring's (8, 3, 224, 224), other rank-4
\* batches, and clips (B, T, 3, 224, 224)
NetInputs ==
    {<<b, 3, ImageSize, ImageSize>> : b \in (1..MaxBatch) \cup {DemoBatch}}
    \cup {<<b, t, 3, ImageSize, ImageSize>> : b \in 1..MaxBatch, t \in TValues}

Chan(r) == IF r.ok /\ Len(r.shape) >= 2 THEN r.shape[2] ELSE -1

FwdBegin ==
    /\ net.built
    /\ npc \in {"idle", "done"}
    /\ calls < MaxCalls
    /\ \E x \in NetInputs : inputs' = x
    /\ npc' = "L543"
    /\ tens' = NoTens
    /\ chan_trace' = <<>>
    /\ fwd_out' = Pending
    /\ calls' = calls + 1
    /\ UNCHANGED <<net, out_3d, attnVars, cellVars>>

RaiseInFwd(kind, line) ==
    /\ npc' = "done"
    /\ fwd_out' = Outcome(kind, <<>>, line)
    /\ UNCHANGED <<tens, chan_trace>>

\* a statement whose framework call yields r (or fails) and binds `name`
NetExec(line, next, name, r, blocks) ==
    /\ UNCHANGED <<net, inputs, calls, attnVars, cellVars>>
    /\ IF ~r.ok
       THEN RaiseInFwd("FrameworkError", line)
       ELSE /\ tens' = [tens EXCEPT ![name] = r.shape]
            /\ chan_trace' = chan_trace \o blocks
            /\ npc' = next
            /\ UNCHANGED fwd_out

\* line 543: inputs.shape[2], [3], [4] are read before the reshape
N543 ==
    /\ npc = "L543"
    /\ UNCHANGED out_3d
    /\ IF ~Has(inputs, 4)
       THEN /\ RaiseInFwd("IndexError", 543)
            /\ UNCHANGED <<net, inputs, calls, attnVars, cellVars>>
       ELSE NetExec(543, "L545", "x",
                    Reshape(inputs, <<-1, At(inputs, 2), At(inputs, 3),
                                      At(inputs, 4)>>), <<>>)

\* line 545: googLeNet_part1 = part1, part2, inception_3a, inception_3b
Stem(channels, r) == Sequential(Part1List(channels) \o Part2List, r)
N545 ==
    /\ npc = "L545"
    /\ UNCHANGED out_3d
    /\ LET s == Stem(net.channels, Ok(tens["x"]))
           a == Inception(Inc3a, s)
           b == Inception(Inc3b, a)
       IN  NetExec(545, "L548", "part1", b, <<Chan(s), Chan(a)>>)

\* line 548: googleNet_b3d, before3d = self.before3d(googLeNet_part1)
N548 ==
    /\ npc = "L548"
    /\ UNCHANGED <<out_3d, net, inputs, calls, attnVars, cellVars>>
    /\ LET r == Ok(tens["part1"])
           o == Inception3c(Inc3c, r)
           b2 == Inception3cBranch2(Inc3c, r)
       IN  IF ~o.ok \/ ~b2.ok
           THEN RaiseInFwd("FrameworkError", 548)
           ELSE /\ tens' = [tens EXCEPT !["b3d"] = o.shape,
                                        !["before3d"] = b2.shape]
                /\ chan_trace' = chan_trace \o <<Chan(r)>>
                /\ npc' = "L551"
                /\ UNCHANGED fwd_out

\* lines 551-559: the window of the last seg_num branch2 results
Out3dUpdate(window, seg_num, before3d) ==
    IF Len(window) = seg_num
    THEN [i \in 1..seg_num |->
             IF i = seg_num THEN before3d ELSE window[i + 1]]
    ELSE window \o [i \in 1..(seg_num - Len(window)) |-> before3d]

N551 ==
    /\ npc = "L551"
    /\ out_3d' = Out3dUpdate(out_3d, net.seg_num, tens["before3d"])
    /\ npc' = "L561"
    /\ UNCHANGED <<net, inputs, tens, chan_trace, fwd_out, calls,
                   attnVars, cellVars>>

\* lines 561-563: the entries concatenated on axis 0
N561 ==
    /\ npc = "L561"
    /\ UNCHANGED out_3d
    /\ NetExec(563, "L564", "y3d",
               Concat([i \in 1..Len(out_3d) |-> Ok(out_3d[i])], 1), <<>>)

\* line 564
N564 ==
    /\ npc = "L564"
    /\ UNCHANGED out_3d
    /\ LET y == tens["y3d"]
       IN  NetExec(564, "L565", "y3d",
                   Reshape(y, <<-1, net.seg_num, At(y, 1), At(y, 2), At(y, 3)>>),
                   <<>>)

\* line 565
N565 ==
    /\ npc = "L565"
    /\ UNCHANGED out_3d
    /\ LET y == tens["y3d"]
       IN  NetExec(565, "L567", "y3d",
                   Reshape(y, <<At(y, 0), At(y, 2), At(y, 1), At(y, 3), At(y, 4)>>),
                   <<>>)

\* line 567
N567 ==
    /\ npc = "L567"
    /\ UNCHANGED out_3d
    /\ NetExec(567, "L569", "o3d", Res3D(Ok(tens["y3d"])), <<>>)

\* line 569 (the dropout of line 572 keeps the shape)
N569 ==
    /\ npc = "L569"
    /\ UNCHANGED out_3d
    /\ LET y == tens["o3d"]
       IN  NetExec(569, "L574", "o3d", Reshape(y, <<-1, At(y, 1)>>), <<>>)

\* lines 574 and 589: reshape to [-1, seg_num, shape[1]]
SegReshape(y, seg_num) == Reshape(y, <<-1, seg_num, At(y, 1)>>)

N574 ==
    /\ npc = "L574"
    /\ UNCHANGED out_3d
    /\ NetExec(574, "L576", "o3d", SegReshape(tens["o3d"], net.seg_num), <<>>)

\* line 576
N576 ==
    /\ npc = "L576"
    /\ UNCHANGED out_3d
    /\ NetExec(576, "L579", "o3d", MeanAxis1(Ok(tens["o3d"])), <<>>)

\* line 579: inception_4a .. inception_4d
N579 ==
    /\ npc = "L579"
    /\ UNCHANGED out_3d
    /\ LET r == Ok(tens["b3d"])
           a == Inception(Inc4a, r)
           b == Inception(Inc4b, a)
           c == Inception(Inc4c, b)
           d == Inception(Inc4d, c)
       IN  NetExec(579, "L582", "part2", d,
                   <<Chan(r), Chan(a), Chan(b), Chan(c)>>)

\* line 582: inception_4e, inception_5a, inception_5b, AvgPool1 (the dropout
\* of line 585 keeps the shape)
N582 ==
    /\ npc = "L582"
    /\ UNCHANGED out_3d
    /\ LET r == Ok(tens["part2"])
           e == Inception4e(Inc4e, r)
           a == Inception5a(Inc5a, e)
           b == Inception5b(Inc5b, a)
       IN  NetExec(582, "L587", "part3", Sequential(<<AdaptivePool1>>, b),
                   <<Chan(r), Chan(e), Chan(a)>>)

\* line 587
N587 ==
    /\ npc = "L587"
    /\ UNCHANGED out_3d
    /\ LET y == tens["part3"]
       IN  NetExec(587, "L589", "o2d", Reshape(y, <<-1, At(y, 1)>>), <<>>)

\* line 589
N589 ==
    /\ npc = "L589"
    /\ UNCHANGED out_3d
    /\ NetExec(589, "L591", "o2d", SegReshape(tens["o2d"], net.seg_num), <<>>)

\* line 591
N591 ==
    /\ npc = "L591"
    /\ UNCHANGED out_3d
    /\ NetExec(591, "L593", "o2d", MeanAxis1(Ok(tens["o2d"])), <<>>)

\* line 593
N593 ==
    /\ npc = "L593"
    /\ UNCHANGED out_3d
    /\ NetExec(593, "L595", "final",
               Concat(<<Ok(tens["o2d"]), Ok(tens["o3d"])>>, 2), <<>>)

\* line 595 (the softmax of line 597 keeps the shape)
N595 ==
    /\ npc = "L595"
    /\ UNCHANGED out_3d
    /\ NetExec(595, "L603", "final",
               Linear(InFeatures, net.class_dim, Ok(tens["final"])), <<>>)

\* line 603: return out_final (label is None)
N603 ==
    /\ npc = "L603"
    /\ npc' = "done"
    /\ fwd_out' = Outcome("return", tens["final"], 603)
    /\ UNCHANGED <<net, out_3d, inputs, tens, chan_trace, calls,
                   attnVars, cellVars>>

FwdStep ==
    \/ N543 \/ N545 \/ N548 \/ N551 \/ N561 \/ N564 \/ N565 \/ N567 \/ N569
    \/ N574 \/ N576 \/ N579 \/ N582 \/ N587 \/ N589 \/ N591 \/ N593 \/ N595
    \/ N603

(***************************************************************************)
(* Specifications.                                                         *)
(***************************************************************************)
AttnIdle ==
    /\ q_shape = <<>>
    /\ k_shape = <<>>
    /\ v_shape = <<>>
    /\ attn_out = Pending
CellIdle ==
    /\ cell = NoCell
    /\ cpc = 0
    /\ locals = FreshLocals
    /\ norm_calls = <<>>
    /\ call_out = Pending
NetIdle ==
    /\ net = NoNet
    /\ out_3d = <<>>
    /\ npc = "idle"
    /\ inputs = <<>>
    /\ tens = NoTens
    /\ chan_trace = <<>>
    /\ fwd_out = Pending
    /\ calls = 0

\* _attn applied to every triple of input shapes
InitAttn ==
    /\ q_shape \in AttnShapes
    /\ k_shape \in AttnShapes
    /\ v_shape \in AttnShapes
    /\ attn_out = Pending
    /\ CellIdle
    /\ NetIdle
SpecAttn == InitAttn /\ [][AttnCall]_vars

\* a cell is constructed and then called any number of times
InitCell == AttnIdle /\ CellIdle /\ NetIdle
NextCell == Construct \/ Construct2D \/ Construct3D \/ CallBegin \/ CallStep
SpecCell == InitCell /\ [][NextCell]_vars

\* a GoogLeNet is constructed and forward is called up to MaxCalls times
InitNet == AttnIdle /\ CellIdle /\ NetIdle
NextNet == NetConstruct \/ FwdBegin \/ FwdStep
SpecNet == InitNet /\ [][NextNet]_vars

Init == InitCell
Next == NextCell \/ NextNet
Spec == Init /\ [][Next]_vars

(***************************************************************************)
(* Properties.                                                             *)
(***************************************************************************)

\* C1 (SpecCell): the constructor raises ValueError exactly when
\* conv_ndims != len(input_shape) - 1 and then has stored no attribute;
\* otherwise it stores the nine arguments unchanged.  Hence the 2D cell
\* accepts exactly input shapes of length 3 and the 3D cell of length 4.
C1_CtorValidation ==
    cell.out # "none" =>
        /\ (cell.out = "ValueError")
              <=> (cell.args.conv_ndims # Len(cell.args.input_shape) - 1)
        /\ cell.out \in {"ValueError", "ok"}
        /\ cell.out = "ValueError" => cell.stored = {}
        /\ cell.out = "ok" =>
              /\ cell.stored = AttrNames
              /\ cell.attrs._conv_ndims = cell.args.conv_ndims
              /\ cell.attrs._input_shape = cell.args.input_shape
              /\ cell.attrs._output_channels = cell.args.output_channels
              /\ cell.attrs._kernel_shape = cell.args.kernel_shape
              /\ cell.attrs._layer_norm = cell.args.layer_norm
              /\ cell.attrs._norm_gain = cell.args.norm_gain
              /\ cell.attrs._norm_shift = cell.args.norm_shift
              /\ cell.attrs._forget_bias = cell.args.forget_bias
              /\ cell.attrs._layer_name = cell.args.name
        /\ cell.cls = "Eidetic2DLSTMCell" =>
              (cell.out = "ok" <=> Len(cell.args.input_shape) = 3)
        /\ cell.cls = "Eidetic3DLSTMCell" =>
              (cell.out = "ok" <=> Len(cell.args.input_shape) = 4)

\* a 2D cell refused for an input shape of length 4
C1_Witness ==
    /\ cell.cls = "Eidetic2DLSTMCell"
    /\ cell.out = "ValueError"
    /\ Len(cell.args.input_shape) = 4

\* the three inputs have the ranks _attn accepts
RanksAccepted == QueryRankOk(q_shape) /\ Len(k_shape) = 5 /\ Len(v_shape) = 5

\* the spatial and channel dimensions (w, h, n) of a shape of rank 4 or 5
Whn(s) == <<s[Len(s) - 2], s[Len(s) - 1], s[Len(s)]>>

\* some corresponding dimension of query (b,l,w,h,n), keys (b,a,w,h,n) and
\* values (b,a,w,h,n) disagrees
Incompatible ==
    \/ q_shape[1] # k_shape[1]
    \/ q_shape[1] # v_shape[1]
    \/ k_shape[1] # v_shape[1]
    \/ k_shape[2] # v_shape[2]
    \/ Whn(q_shape) # Whn(k_shape)
    \/ Whn(q_shape) # Whn(v_shape)
    \/ Whn(k_shape) # Whn(v_shape)

\* C2 (SpecAttn): whenever corresponding dimension lengths of the inputs
\* disagree (batch, attn_length of keys and values, or w, h, n), _attn ends
\* in ValueError and not in a returned result.  A failure inside a framework
\* operation is counted as a ValueError here, since its class is not this
\* repository's to decide.
C2_IncompatibleRaises ==
    (attn_out # Pending /\ RanksAccepted /\ Incompatible)
        => attn_out.kind \in {"ValueError", "FrameworkError"}

\* C3 (SpecAttn): an input whose rank is not 4 or 5 ends in the ValueError of
\* one of the rank checks (lines 117, 121, 125), and no call ends in an
\* IndexError on a shape tuple.
C3_RankChecked ==
    attn_out # Pending =>
        /\ (\/ Len(q_shape) \notin {4, 5}
            \/ Len(k_shape) \notin {4, 5}
            \/ Len(v_shape) \notin {4, 5})
              => (attn_out.kind = "ValueError" /\ attn_out.line \in {117, 121, 125})
        /\ attn_out.kind # "IndexError"

\* keys of rank 3 next to a valid query and valid values
C3_Witness ==
    /\ attn_out.kind = "ValueError"
    /\ Len(q_shape) = 5
    /\ Len(k_shape) = 3
    /\ Len(v_shape) = 5

\* C4 (SpecAttn): every tensor _attn returns has exactly the query's shape,
\* whatever the keys' attn_length.
C4_AttnShape ==
    attn_out.kind = "return" => attn_out.shape = q_shape

\* a rank-5 query answered with keys of another attn_length and w # h
C4_Witness ==
    /\ attn_out.kind = "return"
    /\ Len(q_shape) = 5
    /\ k_shape[2] # q_shape[2]
    /\ q_shape[3] # q_shape[4]

\* C5 (SpecCell): a cell constructed with layer_norm=False never invokes
\* _norm in __call__.
C5_NoNormWithoutLayerNorm ==
    (cell.out = "ok" /\ ~cell.attrs._layer_norm) => norm_calls = <<>>

\* a call of a 3D cell with layer_norm=False that has ended
C5_Witness ==
    /\ cell.out = "ok"
    /\ ~cell.attrs._layer_norm
    /\ cell.attrs._conv_ndims = 3
    /\ call_out.kind = "UnboundLocalError"

\* C6 (SpecCell): __call__ of a 2D or 3D cell completes for both values of
\* layer_norm: it ends by returning, never by reading an unassigned local.
C6_CallCompletes ==
    (call_out # Pending /\ cell.attrs._conv_ndims \in {2, 3})
        => call_out.kind = "return"

\* C7 (SpecCell): for conv_ndims 1, 2 and 3 _conv returns a convolution
\* result, never None.
C7_ConvReturnsResult ==
    (/\ cell.out = "ok"
     /\ cell.attrs._conv_ndims \in {1, 2, 3}
     /\ locals["new_hidden"] # "unset")
        => locals["new_hidden"] # "None"

\* C8 (SpecNet): forward on a rank-4 batch (X, C, 224, 224) returns a tensor
\* of shape (X, class_dim).
C8_Rank4Forward ==
    (npc = "done" /\ Len(inputs) = 4)
        => (fwd_out.kind = "return"
            /\ fwd_out.shape = <<inputs[1], net.class_dim>>)

\* C9 (SpecNet): the first forward of a default GoogLeNet (class_dim=101,
\* seg_num=24) on (B, T, 3, 224, 224) returns a rank-2 tensor with 101
\* columns.
C9_DefaultForward ==
    (/\ npc = "done"
     /\ calls = 1
     /\ net.class_dim = 101
     /\ net.seg_num = 24
     /\ Len(inputs) = 5)
        => (/\ fwd_out.kind = "return"
            /\ Len(fwd_out.shape) = 2
            /\ fwd_out.shape[2] = 101)

\* the blocks in the order forward runs them
Blocks == <<Inc3a, Inc3b, Inc3c, Inc4a, Inc4b, Inc4c, Inc4d, Inc4e, Inc5a, Inc5b>>
DeclaredChannels == <<192, 256, 320, 576, 576, 576, 608, 608, 1056, 1024>>
FourBranchOut(b) == b.ch1x1 + b.ch3x3 + b.doublech3x3_2 + b.pool_proj
ReducingOut(b) == b.ch3x3 + b.doublech3x3_2 + b.num_channels

\* C10 (SpecNet): the channel counts chain through GoogLeNet: no statement
\* that feeds a block, the 3D network or the final Linear fails, every block
\* receives the channel count it declares, (192, 256, 320, 576, 576, 576,
\* 608, 608, 1056, 1024); the four-branch blocks put out ch1x1 + ch3x3 +
\* doublech3x3_2 + pool_proj, Inception3c and Inception4e put out ch3x3 +
\* doublech3x3_2 + num_channels; Inception3c's second result has the 96
\* channels declared for the 3D network; the 2D stream ends with 1024
\* channels, and 1024 + 512 is the in_features of the final Linear.
C10_ChannelsChain ==
    /\ Len(chan_trace) <= Len(Blocks)
    /\ \A i \in 1..Len(chan_trace) :
          /\ chan_trace[i] = Blocks[i].num_channels
          /\ chan_trace[i] = DeclaredChannels[i]
    /\ fwd_out.kind = "FrameworkError" =>
          fwd_out.line \notin {545, 548, 567, 579, 582, 595}
    /\ tens["part1"] # <<>> => tens["part1"][2] = FourBranchOut(Inc3b)
    /\ tens["b3d"] # <<>> =>
          /\ tens["b3d"][2] = ReducingOut(Inc3c)
          /\ tens["before3d"][2] = Inc3c.doublech3x3_1
          /\ tens["before3d"][2] = Res3DChannels
    /\ tens["part2"] # <<>> => tens["part2"][2] = FourBranchOut(Inc4d)
    /\ tens["part3"] # <<>> =>
          /\ Len(chan_trace) = Len(Blocks)
          /\ chan_trace[9] = ReducingOut(Inc4e)
          /\ chan_trace[10] = FourBranchOut(Inc5a)
          /\ tens["part3"][2] = FourBranchOut(Inc5b)
          /\ tens["part3"][2] = 1024
          /\ tens["part3"][2] + 512 = InFeatures
    /\ (npc = "L595" /\ tens["final"] # <<>>) => tens["final"][2] = InFeatures

\* a forward that ran every block and returned
C10_Witness ==
    /\ npc = "done"
    /\ fwd_out.kind = "return"
    /\ Len(chan_trace) = 10
    /\ fwd_out.shape[1] = 2

====
